---- MODULE Spec2Model ----
(***************************************************************************)
(* Asset registry, commit protocol and serving engine of                   *)
(* get-convex/self-static-hosting.                                         *)
(*                                                                         *)
(* The component's table functions (dist/component/lib.js) are operators   *)
(* over the table they read and write; the functions an app exposes        *)
(* (src/client/index.ts exposeUploadApi) and the HTTP handler              *)
(* (registerStaticRoutes / serveStaticFile) are built from them.  Every    *)
(* Convex mutation runs as one transaction, so each call is one action.    *)
(*                                                                         *)
(* Strings the code takes apart (URL paths, the path prefix) are sequences *)
(* of one-character strings.  Storage ids and deployment ids are opaque    *)
(* to the code and are numbers here; 0 stands for null.                    *)
(***************************************************************************)
EXTENDS Integers, Sequences, FiniteSets, TLC

VARIABLES
    staticAssets,     \* table staticAssets, rows in creation order
    deploymentInfo,   \* table deploymentInfo, rows in creation order
    storage,          \* the app's file storage: the storage ids that resolve
    nextStorageId,    \* the id the storage hands to the next upload
    pathPrefix,       \* registerStaticRoutes option
    spaFallback,      \* registerStaticRoutes option
    runs,             \* the upload CLI processes
    last,             \* the most recent call or HTTP exchange and its result
    reader,           \* an HTTP request on its way through the handler
    client            \* a browser tab running useDeploymentUpdates

vars == <<staticAssets, deploymentInfo, storage, nextStorageId, pathPrefix,
          spaFallback, runs, last, reader, client>>

-----------------------------------------------------------------------------
(* Bounds *)

\* uploads the storage accepts before the model stops issuing ids
NumBlobs == 3
\* deployment ids a caller of the exposed functions passes by hand
NumDeploymentIds == 2
\* runs of the upload CLI
NumRuns == 2
\* values of Date.now()
MaxTime == 1

Null == 0

StorageIds == 1 .. NumBlobs
DeploymentIds == 1 .. NumDeploymentIds
\* randomUUID() of a CLI run: an id no other run and no caller has
CliDeploymentId(r) == NumDeploymentIds + r
Times == 1 .. MaxTime
RunIds == 1 .. NumRuns

-----------------------------------------------------------------------------
(* Paths *)

IndexHtml == <<"/", "i", "n", "d", "e", "x", ".", "h", "t", "m", "l">>
AppJs == <<"/", "a", "s", "s", "e", "t", "s", "/", "a", "p", "p", ".", "j", "s">>
MissingJs ==
    <<"/", "a", "s", "s", "e", "t", "s", "/", "m", "i", "s", "s", "i", "n", "g",
      ".", "j", "s">>
About == <<"/", "a", "b", "o", "u", "t">>
Root == <<"/">>

\* the paths assets are recorded at
AssetPaths == {IndexHtml, AppJs}

TextHtml == "text/html; charset=utf-8"
ApplicationJavascript == "application/javascript; charset=utf-8"
OctetStream == "application/octet-stream"
ContentTypes == {TextHtml, ApplicationJavascript}

-----------------------------------------------------------------------------
(* String helpers, as the JavaScript methods the code calls compute them *)

startsWith(s, p) ==
    /\ Len(p) <= Len(s)
    /\ SubSeq(s, 1, Len(p)) = p

slice(s, n) == SubSeq(s, n + 1, Len(s))

includes(s, c) == \E i \in 1 .. Len(s) : s[i] = c

\* 0 when c does not occur
lastIndexOf(s, c) ==
    IF includes(s, c)
    THEN CHOOSE i \in 1 .. Len(s) :
             /\ s[i] = c
             /\ \A j \in (i + 1) .. Len(s) : s[j] # c
    ELSE 0

-----------------------------------------------------------------------------
(* The component: dist/component/lib.js *)

Row(path, storageId, contentType, deploymentId) ==
    [path |-> path, storageId |-> storageId, contentType |-> contentType,
     deploymentId |-> deploymentId]

\* ctx.db.delete(_id): the table without its i-th row
dbDelete(db, i) == SubSeq(db, 1, i - 1) \o SubSeq(db, i + 1, Len(db))

\* .withIndex("by_path", q => q.eq("path", path)): the matching positions
by_path(db, path) == {i \in DOMAIN db : db[i].path = path}

\* .unique() throws when more than one row matches
uniqueThrows(db, path) == Cardinality(by_path(db, path)) > 1

\* .unique(): the position of the one matching row, 0 for null
unique(db, path) ==
    IF by_path(db, path) = {} THEN 0 ELSE CHOOSE i \in by_path(db, path) : TRUE

NoAsset == [none |-> TRUE]

\* getByPath: the row, or null
getByPath(db, path) ==
    IF unique(db, path) = 0 THEN NoAsset ELSE db[unique(db, path)]

\* (mutant) the insert without the delete of the existing row
lib_recordAsset_noDelete(db, path, storageId, contentType, deploymentId) ==
    LET existing == unique(db, path)
        oldStorageId == IF existing # 0 THEN db[existing].storageId ELSE Null
    IN  [db |-> Append(db, Row(path, storageId, contentType, deploymentId)),
         ret |-> oldStorageId]

\* recordAsset of the component: the table afterwards and the returned
\* old storage id (Null when the path was new)
lib_recordAsset(db, path, storageId, contentType, deploymentId) ==
    LET existing == unique(db, path)
        oldStorageId == IF existing # 0 THEN db[existing].storageId ELSE Null
        db1 == IF existing # 0 THEN dbDelete(db, existing) ELSE db
    IN  [db |-> Append(db1, Row(path, storageId, contentType, deploymentId)),
         ret |-> oldStorageId]

\* (mutant) the loop stopped after the first stale row
lib_gcOldAssets_firstOnly(db, currentDeploymentId) ==
    LET stale == {i \in DOMAIN db : db[i].deploymentId # currentDeploymentId}
        first == CHOOSE i \in stale : \A j \in stale : i <= j
    IN  IF stale = {}
        THEN [db |-> db, ret |-> <<>>]
        ELSE [db |-> dbDelete(db, first), ret |-> <<db[first].storageId>>]

\* (mutant) the test inverted: === for !==
lib_gcOldAssets_inverted(db, currentDeploymentId) ==
    LET old(r) == r.deploymentId = currentDeploymentId
        kept(r) == ~old(r)
        oldAssets == SelectSeq(db, old)
    IN  [db |-> SelectSeq(db, kept),
         ret |-> [i \in DOMAIN oldAssets |-> oldAssets[i].storageId]]

\* (mutant) every row's storage id returned, stale or not
lib_gcOldAssets_returnsAll(db, currentDeploymentId) ==
    LET kept(r) == r.deploymentId = currentDeploymentId
    IN  [db |-> SelectSeq(db, kept),
         ret |-> [i \in DOMAIN db |-> db[i].storageId]]

\* (mutant) the stale rows listed but left in the table
lib_gcOldAssets_noDelete(db, currentDeploymentId) ==
    LET old(r) == r.deploymentId # currentDeploymentId
        oldAssets == SelectSeq(db, old)
    IN  [db |-> db,
         ret |-> [i \in DOMAIN oldAssets |-> oldAssets[i].storageId]]

\* (mutant) rows of a deployment id above the current one spared
lib_gcOldAssets_sparesNewer(db, currentDeploymentId) ==
    LET old(r) == r.deploymentId < currentDeploymentId
        kept(r) == ~old(r)
        oldAssets == SelectSeq(db, old)
    IN  [db |-> SelectSeq(db, kept),
         ret |-> [i \in DOMAIN oldAssets |-> oldAssets[i].storageId]]

\* gcOldAssets of the component: the table afterwards and the returned
\* storage ids, in the table's order
lib_gcOldAssets(db, currentDeploymentId) ==
    LET old(r) == r.deploymentId # currentDeploymentId
        kept(r) == ~old(r)
        oldAssets == SelectSeq(db, old)
    IN  [db |-> SelectSeq(db, kept),
         ret |-> [i \in DOMAIN oldAssets |-> oldAssets[i].storageId]]

\* (mutant) a new row at every call
lib_setCurrentDeployment_alwaysInsert(info, deploymentId, now) ==
    Append(info, [_id |-> Len(info) + 1,
                  currentDeploymentId |-> deploymentId, deployedAt |-> now])

\* (mutant) the patch of deployedAt alone
lib_setCurrentDeployment_keepsId(info, deploymentId, now) ==
    IF Len(info) > 0
    THEN [info EXCEPT ![1].deployedAt = now]
    ELSE Append(info, [_id |-> Len(info) + 1,
                       currentDeploymentId |-> deploymentId,
                       deployedAt |-> now])

\* setCurrentDeployment: patch the first row, or insert one; no row is ever
\* deleted, so the inserted row's _id is the table's length plus one
lib_setCurrentDeployment(info, deploymentId, now) ==
    IF Len(info) > 0
    THEN [info EXCEPT ![1].currentDeploymentId = deploymentId,
                      ![1].deployedAt = now]
    ELSE Append(info, [_id |-> Len(info) + 1,
                       currentDeploymentId |-> deploymentId,
                       deployedAt |-> now])

NoDeployment == [none |-> TRUE]

\* getCurrentDeployment: .first(), or null
lib_getCurrentDeployment(info) ==
    IF Len(info) > 0 THEN info[1] ELSE NoDeployment

-----------------------------------------------------------------------------
(* The exposed upload API: src/client/index.ts exposeUploadApi *)

\* ctx.storage.delete(id) throws when the storage holds no file under id
storageDeleteThrows(store, id) == id \notin store

\* ctx.storage.delete(id)
storageDelete(store, id) == store \ {id}

\* (mutant) the delete left out
tryStorageDelete_skip(store, id) == store

\* try { ctx.storage.delete(id) } catch { }
tryStorageDelete(store, id) ==
    IF storageDeleteThrows(store, id) THEN store ELSE storageDelete(store, id)

\* (mutant) one try around the whole loop: the first throw ends it
RECURSIVE storageDeleteAll_oneTry(_, _)
storageDeleteAll_oneTry(store, ids) ==
    IF ids = <<>> \/ storageDeleteThrows(store, Head(ids))
    THEN store
    ELSE storageDeleteAll_oneTry(storageDelete(store, Head(ids)), Tail(ids))

\* for (const storageId of storageIdsToDelete) try-delete
RECURSIVE storageDeleteAll(_, _)
storageDeleteAll(store, ids) ==
    IF ids = <<>>
    THEN store
    ELSE storageDeleteAll(tryStorageDelete(store, Head(ids)), Tail(ids))

\* some delete of the loop throws and is caught
RECURSIVE storageDeleteAllThrew(_, _)
storageDeleteAllThrew(store, ids) ==
    /\ ids # <<>>
    /\ \/ storageDeleteThrows(store, Head(ids))
       \/ storageDeleteAllThrew(tryStorageDelete(store, Head(ids)), Tail(ids))

\* (mutant) the last index for the length
gcCount_lastIndex(storageIdsToDelete) == Len(storageIdsToDelete) - 1

\* return storageIdsToDelete.length
gcCount(storageIdsToDelete) == Len(storageIdsToDelete)

\* exposed recordAsset: the component call, then the old file's delete; the
\* field threw tells that the delete threw and was caught
recordAsset(path, storageId, contentType, deploymentId) ==
    /\ ~uniqueThrows(staticAssets, path)
    /\ LET r == lib_recordAsset(staticAssets, path, storageId, contentType,
                                deploymentId)
       IN  /\ staticAssets' = r.db
           /\ storage' = IF r.ret # Null
                         THEN tryStorageDelete(storage, r.ret)
                         ELSE storage
           /\ last' = [op |-> "recordAsset", path |-> path,
                       storageId |-> storageId, contentType |-> contentType,
                       deploymentId |-> deploymentId, old |-> r.ret,
                       threw |-> /\ r.ret # Null
                                 /\ storageDeleteThrows(storage, r.ret)]
    /\ UNCHANGED deploymentInfo

\* exposed gcOldAssets: the component call, the stale files' deletes, then
\* setCurrentDeployment; returns the number of storage ids.  The field again
\* tells a call that follows a gcOldAssets call of the same id directly, the
\* field threw that a delete threw and was caught.
gcOldAssets(currentDeploymentId, now) ==
    /\ LET r == lib_gcOldAssets(staticAssets, currentDeploymentId)
       IN  /\ staticAssets' = r.db
           /\ storage' = storageDeleteAll(storage, r.ret)
           /\ last' = [op |-> "gcOldAssets",
                       deploymentId |-> currentDeploymentId,
                       deleted |-> r.ret, count |-> gcCount(r.ret),
                       threw |-> storageDeleteAllThrew(storage, r.ret),
                       again |-> /\ last.op = "gcOldAssets"
                                 /\ last.deploymentId = currentDeploymentId]
    /\ deploymentInfo' =
           lib_setCurrentDeployment(deploymentInfo, currentDeploymentId, now)

\* generateUploadUrl and the POST to it: the storage keeps the file under a
\* fresh id
storageStore ==
    /\ nextStorageId <= NumBlobs
    /\ storage' = storage \cup {nextStorageId}
    /\ nextStorageId' = nextStorageId + 1

-----------------------------------------------------------------------------
(* Characters *)

LowerSeq ==
    <<"a", "b", "c", "d", "e", "f", "g", "h", "i", "j", "k", "l", "m", "n", "o",
      "p", "q", "r", "s", "t", "u", "v", "w", "x", "y", "z">>
UpperSeq ==
    <<"A", "B", "C", "D", "E", "F", "G", "H", "I", "J", "K", "L", "M", "N", "O",
      "P", "Q", "R", "S", "T", "U", "V", "W", "X", "Y", "Z">>
Lower == {LowerSeq[i] : i \in DOMAIN LowerSeq}
Upper == {UpperSeq[i] : i \in DOMAIN UpperSeq}
Digit == {"0", "1", "2", "3", "4", "5", "6", "7", "8", "9"}

toLowerChar(c) ==
    IF c \in Upper
    THEN LowerSeq[CHOOSE i \in DOMAIN UpperSeq : UpperSeq[i] = c]
    ELSE c

toLowerCase(s) == [i \in DOMAIN s |-> toLowerChar(s[i])]

-----------------------------------------------------------------------------
(* MIME types *)

MIME_TYPES ==
    {
     <<<<".", "h", "t", "m", "l">>, "text/html; charset=utf-8">>,
     <<<<".", "j", "s">>, "application/javascript; charset=utf-8">>,
     <<<<".", "m", "j", "s">>, "application/javascript; charset=utf-8">>,
     <<<<".", "c", "s", "s">>, "text/css; charset=utf-8">>,
     <<<<".", "j", "s", "o", "n">>, "application/json; charset=utf-8">>,
     <<<<".", "p", "n", "g">>, "image/png">>,
     <<<<".", "j", "p", "g">>, "image/jpeg">>,
     <<<<".", "j", "p", "e", "g">>, "image/jpeg">>,
     <<<<".", "g", "i", "f">>, "image/gif">>,
     <<<<".", "s", "v", "g">>, "image/svg+xml">>,
     <<<<".", "i", "c", "o">>, "image/x-icon">>,
     <<<<".", "w", "e", "b", "p">>, "image/webp">>,
     <<<<".", "w", "o", "f", "f">>, "font/woff">>,
     <<<<".", "w", "o", "f", "f", "2">>, "font/woff2">>,
     <<<<".", "t", "t", "f">>, "font/ttf">>,
     <<<<".", "t", "x", "t">>, "text/plain; charset=utf-8">>,
     <<<<".", "m", "a", "p">>, "application/json">>,
     <<<<".", "w", "e", "b", "m", "a", "n", "i", "f", "e", "s", "t">>, "application/manifest+json">>,
     <<<<".", "x", "m", "l">>, "application/xml">>
    }

mimeLookup(ext) ==
    IF \E e \in MIME_TYPES : e[1] = ext
    THEN (CHOOSE e \in MIME_TYPES : e[1] = ext)[2]
    ELSE OctetStream

\* getMimeType of the client: the text from the last "." on, lower-cased.
\* substring(-1) of a path without "." is the whole path.
getMimeType(path) ==
    LET dot == lastIndexOf(path, ".")
        ext == IF dot = 0 THEN path ELSE SubSeq(path, dot, Len(path))
    IN  mimeLookup(toLowerCase(ext))

\* the last "/"-delimited segment: path.split("/").pop() || ""
lastSegment(path) == slice(path, lastIndexOf(path, "/"))

\* path.extname of Node: from the last "." of the base name, "" when there
\* is none or when it is the base name's first character
extname(path) ==
    LET base == lastSegment(path)
        dot == lastIndexOf(base, ".")
    IN  IF dot <= 1 THEN <<>> ELSE SubSeq(base, dot, Len(base))

\* getMimeType of the upload CLI
cliGetMimeType(path) == mimeLookup(toLowerCase(extname(path)))

-----------------------------------------------------------------------------
(* The serving engine: src/client/index.ts registerStaticRoutes *)

hasFileExtension(path) ==
    /\ includes(lastSegment(path), ".")
    /\ ~startsWith(lastSegment(path), <<".">>)

\* the bounds of the quantifier {6,12} of isHashedAsset's pattern
HashMin == 6
HashMax == 12

\* (mutant) the quantifier without its upper bound: {6,}
isHashedAsset_unbounded(path) ==
    \E i \in DOMAIN path, k \in HashMin .. Len(path) :
        /\ path[i] \in {"-", "."}
        /\ i + k + 2 <= Len(path)
        /\ \A j \in (i + 1) .. (i + k) :
               path[j] \in Digit \cup Upper \cup Lower \cup {"_"}
        /\ path[i + k + 1] = "."
        /\ \A j \in (i + k + 2) .. Len(path) : path[j] \in Lower

\* /[-.][\dA-Za-z_]{6,12}\.[a-z]+$/.test(path)
isHashedAsset(path) ==
    \E i \in DOMAIN path, k \in HashMin .. HashMax :
        /\ path[i] \in {"-", "."}
        /\ i + k + 2 <= Len(path)
        /\ \A j \in (i + 1) .. (i + k) :
               path[j] \in Digit \cup Upper \cup Lower \cup {"_"}
        /\ path[i + k + 1] = "."
        /\ \A j \in (i + k + 2) .. Len(path) : path[j] \in Lower

Immutable == "public, max-age=31536000, immutable"
MustRevalidate == "public, max-age=0, must-revalidate"
cacheControlFor(path) ==
    IF isHashedAsset(path) THEN Immutable ELSE MustRevalidate

\* pathPrefix === "/" ? "" : pathPrefix.replace(/\/$/, "")
normalizedPrefix(prefix) ==
    IF prefix = Root
    THEN <<>>
    ELSE IF Len(prefix) > 0 /\ prefix[Len(prefix)] = "/"
         THEN SubSeq(prefix, 1, Len(prefix) - 1)
         ELSE prefix

\* the two http.route registrations: the prefix route and the exact route
routed(prefix, urlPath) ==
    LET np == normalizedPrefix(prefix)
    IN  \/ startsWith(urlPath, IF prefix = Root THEN Root ELSE np \o Root)
        \/ np # <<>> /\ urlPath = np

\* the quoted storage id
Etag(storageId) == [form |-> "quoted", id |-> storageId]
NoHeader == [form |-> "absent", id |-> Null]

NoBody == [kind |-> "none", id |-> Null]
SetupHtml == [kind |-> "setup html", id |-> Null]
NotFoundText == [kind |-> "Not Found", id |-> Null]
StorageErrorText == [kind |-> "Storage error", id |-> Null]
\* ctx.storage.get(id): the file stored under id
Blob(id) == [kind |-> "blob", id |-> id]

TextPlain == "text/plain"
None == "(not set)"

Response(status, body, contentType, cacheControl, etag, nosniff) ==
    [status |-> status, body |-> body, contentType |-> contentType,
     cacheControl |-> cacheControl, etag |-> etag, nosniff |-> nosniff]

\* (mutant) the prefix left on the path
lookupPath_noStrip(prefix, urlPath) ==
    IF urlPath = <<>> \/ urlPath = Root THEN IndexHtml ELSE urlPath

\* the path looked up: prefix removed, root rewritten to /index.html
lookupPath(prefix, urlPath) ==
    LET np == normalizedPrefix(prefix)
        stripped ==
            IF np # <<>> /\ startsWith(urlPath, np)
            THEN IF slice(urlPath, Len(np)) = <<>>
                 THEN Root
                 ELSE slice(urlPath, Len(np))
            ELSE urlPath
    IN  IF stripped = <<>> \/ stripped = Root THEN IndexHtml ELSE stripped

\* (mutant) the fallback without the file-extension test
resolveAsset_anyPath(db, spa, path) ==
    IF getByPath(db, path) = NoAsset /\ spa
    THEN getByPath(db, IndexHtml)
    ELSE getByPath(db, path)

\* the asset served for a looked-up path, with the SPA fallback
resolveAsset(db, spa, path) ==
    IF getByPath(db, path) = NoAsset /\ spa /\ ~hasFileExtension(path)
    THEN getByPath(db, IndexHtml)
    ELSE getByPath(db, path)

\* (mutant) 404 for /index.html too
notFoundResponse_always404(path) ==
    Response(404, NotFoundText, TextPlain, None, NoHeader, FALSE)

\* no asset: the setup page for /index.html, else 404
notFoundResponse(path) ==
    IF path = IndexHtml
    THEN Response(200, SetupHtml, TextHtml, None, NoHeader, FALSE)
    ELSE Response(404, NotFoundText, TextPlain, None, NoHeader, FALSE)

\* (mutant) the header compared with the storage id, quotes disregarded
conditionalHit_unquoted(ifNoneMatch, etag) ==
    /\ ifNoneMatch.form \in {"quoted", "raw"}
    /\ ifNoneMatch.id = etag.id

\* ifNoneMatch === etag
conditionalHit(ifNoneMatch, etag) == ifNoneMatch = etag

notModifiedResponse(asset, path) ==
    Response(304, NoBody, None, cacheControlFor(path), Etag(asset.storageId),
             FALSE)

NoBlob == [kind |-> "null", id |-> Null]

\* ctx.storage.get(id): the file, or null
storageGet(store, id) == IF id \in store THEN Blob(id) ELSE NoBlob

\* (mutant) the file served without the null test
blobResponse_unchecked(blob, asset, path) ==
    Response(200, blob, asset.contentType, cacheControlFor(path),
             Etag(asset.storageId), TRUE)

\* (mutant) 503 for the file the storage does not hold
blobResponse_unavailable(blob, asset, path) ==
    IF blob = NoBlob
    THEN Response(503, StorageErrorText, TextPlain, None, NoHeader, FALSE)
    ELSE Response(200, blob, asset.contentType, cacheControlFor(path),
                  Etag(asset.storageId), TRUE)

\* the answer once the file was asked of the storage
blobResponse(blob, asset, path) ==
    IF blob = NoBlob
    THEN Response(500, StorageErrorText, TextPlain, None, NoHeader, FALSE)
    ELSE Response(200, blob, asset.contentType, cacheControlFor(path),
                  Etag(asset.storageId), TRUE)

\* the handler
serveStaticFile(db, store, prefix, spa, urlPath, ifNoneMatch) ==
    LET path == lookupPath(prefix, urlPath)
        asset == resolveAsset(db, spa, path)
    IN  IF asset = NoAsset
        THEN notFoundResponse(path)
        ELSE IF conditionalHit(ifNoneMatch, Etag(asset.storageId))
             THEN notModifiedResponse(asset, path)
             ELSE blobResponse(storageGet(store, asset.storageId), asset, path)

\* no response yet
NoResponse == Response(0, NoBody, None, None, NoHeader, FALSE)

\* no request in the handler
IdleReader ==
    [pc |-> "idle", urlPath |-> <<>>, ifNoneMatch |-> NoHeader, path |-> <<>>,
     asset |-> NoAsset, response |-> NoResponse]

\* useQuery's value while the first result is outstanding
Undefined == [loaded |-> FALSE, currentDeploymentId |-> Null]

\* no tab open; atMount is the id published when the tab mounted the hook
NoClient ==
    [mounted |-> FALSE, deployment |-> Undefined,
     initialDeploymentId |-> Null, dismissedDeploymentId |-> Null,
     atMount |-> Null]

-----------------------------------------------------------------------------
(* Calls of the exposed functions by hand (npx convex run) *)

CallUpload ==
    /\ storageStore
    /\ last' = [op |-> "upload", storageId |-> nextStorageId]
    /\ UNCHANGED <<staticAssets, deploymentInfo, pathPrefix, spaFallback, runs>>
    /\ UNCHANGED <<reader, client>>

\* recordAsset for a file the storage holds, with the content type the
\* client's getMimeType gives its path
CallRecordAsset ==
    \E path \in AssetPaths, storageId \in storage,
       deploymentId \in DeploymentIds :
        /\ recordAsset(path, storageId, getMimeType(path), deploymentId)
        /\ UNCHANGED <<nextStorageId, pathPrefix, spaFallback, runs>>
        /\ UNCHANGED <<reader, client>>

CallGcOldAssets ==
    \E currentDeploymentId \in DeploymentIds, now \in Times :
        /\ gcOldAssets(currentDeploymentId, now)
        /\ UNCHANGED <<nextStorageId, pathPrefix, spaFallback, runs>>
        /\ UNCHANGED <<reader, client>>

-----------------------------------------------------------------------------

(* The upload CLI: src/cli/upload.ts main *)

\* collectFiles: the files of the dist directory in readdir order
FileLists == {<<>>, <<AppJs>>, <<IndexHtml>>, <<AppJs, IndexHtml>>}

\* a run not started; firstId is the storage's next id when the run began,
\* before the paths live then, clean whether the storage then held exactly
\* the files the rows referenced
IdleRun == [pc |-> "idle", deploymentId |-> Null, files |-> <<>>, i |-> 0,
            uploaded |-> <<>>, firstId |-> 0, before |-> {}, clean |-> FALSE]

Finished(r) == runs[r].pc \in {"idle", "done", "failed"}

\* deploymentId = randomUUID(); files = collectFiles(distDir, distDir).
\* The runs are numbered in the order they start.
CliStart(r) ==
    \E files \in FileLists :
        /\ runs[r].pc = "idle"
        /\ \A q \in RunIds : q < r => runs[q].pc # "idle"
        /\ runs' = [runs EXCEPT ![r] =
                        [pc |-> IF files = <<>> THEN "gc" ELSE "upload",
                         deploymentId |-> CliDeploymentId(r),
                         files |-> files, i |-> 1, uploaded |-> <<>>,
                         firstId |-> nextStorageId,
                         before |-> {staticAssets[i].path :
                                         i \in DOMAIN staticAssets},
                         clean |-> storage = {staticAssets[i].storageId :
                                                  i \in DOMAIN staticAssets}]]
        /\ last' = [op |-> "start", run |-> r]
        /\ UNCHANGED <<staticAssets, deploymentInfo, storage, nextStorageId,
                       pathPrefix, spaFallback>>
        /\ UNCHANGED <<reader, client>>

\* generateUploadUrl, then the POST of the file's content
CliUpload(r) ==
    /\ runs[r].pc = "upload"
    /\ storageStore
    /\ runs' = [runs EXCEPT ![r].pc = "record",
                            ![r].uploaded = Append(@, nextStorageId)]
    /\ last' = [op |-> "upload", storageId |-> nextStorageId]
    /\ UNCHANGED <<staticAssets, deploymentInfo, pathPrefix, spaFallback>>
    /\ UNCHANGED <<reader, client>>

\* convexRun of recordAsset for the file just uploaded
CliRecordAsset(r) ==
    /\ runs[r].pc = "record"
    /\ recordAsset(runs[r].files[runs[r].i], runs[r].uploaded[runs[r].i],
                   cliGetMimeType(runs[r].files[runs[r].i]),
                   runs[r].deploymentId)
    /\ runs' = [runs EXCEPT ![r].i = @ + 1,
                            ![r].pc = IF runs[r].i = Len(runs[r].files)
                                      THEN "gc"
                                      ELSE "upload"]
    /\ UNCHANGED <<nextStorageId, pathPrefix, spaFallback>>
    /\ UNCHANGED <<reader, client>>

\* (mutant) gcOldAssets called wherever the run stands
CliGcOldAssets_anytime(r) ==
    /\ runs[r].pc \in {"upload", "record", "gc"}
    /\ \E now \in Times : gcOldAssets(runs[r].deploymentId, now)
    /\ runs' = [runs EXCEPT ![r].pc = "done"]
    /\ UNCHANGED <<nextStorageId, pathPrefix, spaFallback>>
    /\ UNCHANGED <<reader, client>>

\* convexRun of gcOldAssets once the loop is through
CliGcOldAssets(r) ==
    /\ runs[r].pc = "gc"
    /\ \E now \in Times : gcOldAssets(runs[r].deploymentId, now)
    /\ runs' = [runs EXCEPT ![r].pc = "done"]
    /\ UNCHANGED <<nextStorageId, pathPrefix, spaFallback>>
    /\ UNCHANGED <<reader, client>>

\* convexRun or fetch throws: main rejects and the process ends, its loop
\* variables with it
CliFail(r) ==
    /\ runs[r].pc \in {"upload", "record", "gc"}
    /\ runs' = [runs EXCEPT ![r] =
                    [IdleRun EXCEPT !.pc = "failed",
                                    !.deploymentId = runs[r].deploymentId,
                                    !.files = runs[r].files]]
    /\ last' = [op |-> "failed", run |-> r]
    /\ UNCHANGED <<staticAssets, deploymentInfo, storage, nextStorageId,
                   pathPrefix, spaFallback>>
    /\ UNCHANGED <<reader, client>>

CliStep(r) ==
    \/ CliStart(r)
    \/ CliUpload(r)
    \/ CliRecordAsset(r)
    \/ CliGcOldAssets(r)
    \/ CliFail(r)

-----------------------------------------------------------------------------
(* Specifications *)

\* the state after the component is installed and the routes registered with
\* the default options
Init ==
    /\ staticAssets = <<>>
    /\ deploymentInfo = <<>>
    /\ storage = {}
    /\ nextStorageId = 1
    /\ pathPrefix = Root
    /\ spaFallback = TRUE
    /\ runs = [r \in RunIds |-> IdleRun]
    /\ last = [op |-> "none"]
    /\ reader = IdleReader
    /\ client = NoClient

Next ==
    \/ CallUpload
    \/ CallRecordAsset
    \/ CallGcOldAssets

\* the exposed functions called in any order with any arguments
Spec == Init /\ [][Next]_vars

\* CLI runs that overlap in any way
DeployNext == \E r \in RunIds : CliStep(r)

DeploySpec == Init /\ [][DeployNext]_vars

\* one writer at a time: a CLI run acts only while every other run is not
\* started or has ended
Alone(r) == \A q \in RunIds \ {r} : Finished(q)

SerialNext ==
    \/ \E r \in RunIds : Alone(r) /\ CliStart(r)
    \/ \E r \in RunIds : Alone(r) /\ CliUpload(r)
    \/ \E r \in RunIds : Alone(r) /\ CliRecordAsset(r)
    \/ \E r \in RunIds : Alone(r) /\ CliGcOldAssets(r)
    \/ \E r \in RunIds : Alone(r) /\ CliFail(r)

SerialSpec == Init /\ [][SerialNext]_vars

-----------------------------------------------------------------------------
(* The handler as a function of the tables, the storage, the route options  *)
(* and the request                                                          *)

App == <<"/", "a", "p", "p">>
AppSlash == <<"/", "a", "p", "p", "/">>
Prefixes == {Root, App, AppSlash}

UrlPaths ==
    {pre \o rest : pre \in {<<>>, App},
                   rest \in {Root, IndexHtml, AppJs, MissingJs, About}}
        \cup {App}

IfNoneMatchValues ==
    {NoHeader} \cup {[form |-> f, id |-> id] :
                         f \in {"quoted", "raw"}, id \in StorageIds}

RowsAt(path) ==
    {Row(path, storageId, contentType, 1) :
         storageId \in StorageIds, contentType \in ContentTypes}

\* tables with at most one row a path
ServeTables ==
    {<<>>}
        \cup {<<a>> : a \in RowsAt(AppJs) \cup RowsAt(IndexHtml)}
        \cup {<<a, b>> : a \in RowsAt(AppJs), b \in RowsAt(IndexHtml)}

\* a request the router hands to the handler
PendingRequest(urlPath, ifNoneMatch) ==
    [op |-> "request", urlPath |-> urlPath, ifNoneMatch |-> ifNoneMatch]

InitServe ==
    /\ staticAssets \in ServeTables
    /\ deploymentInfo = <<>>
    /\ storage \in SUBSET StorageIds
    /\ nextStorageId = NumBlobs + 1
    /\ pathPrefix \in Prefixes
    /\ spaFallback \in BOOLEAN
    /\ runs = [r \in RunIds |-> IdleRun]
    /\ last \in {PendingRequest(u, h) : u \in UrlPaths, h \in IfNoneMatchValues}
    /\ reader = IdleReader
    /\ client = NoClient
    /\ routed(pathPrefix, last.urlPath)

\* the handler answers the request
Serve ==
    /\ last.op = "request"
    /\ last' = [op |-> "GET", urlPath |-> last.urlPath,
                ifNoneMatch |-> last.ifNoneMatch,
                response |-> serveStaticFile(staticAssets, storage, pathPrefix,
                                             spaFallback, last.urlPath,
                                             last.ifNoneMatch)]
    /\ UNCHANGED <<staticAssets, deploymentInfo, storage, nextStorageId,
                   pathPrefix, spaFallback, runs>>
    /\ UNCHANGED <<reader, client>>

NextServe == Serve

ServeSpec == InitServe /\ [][NextServe]_vars

-----------------------------------------------------------------------------
(* The handler step by step, beside a deployment: an httpAction is not one  *)
(* transaction; each runQuery and the storage read see the state of their   *)
(* own moment                                                               *)

\* the request paths of a visitor: the root, a file, a client-side route
LiveUrlPaths == {Root, AppJs, About}

\* If-None-Match of a browser: none, or the ETag of a file now registered
LiveIfNoneMatch ==
    {NoHeader} \cup {Etag(staticAssets[i].storageId) : i \in DOMAIN staticAssets}

\* the handler from a lookup's result to its next await or its return
afterLookup(rd, asset) ==
    IF asset = NoAsset
    THEN [rd EXCEPT !.pc = "done", !.asset = NoAsset,
                    !.response = notFoundResponse(rd.path)]
    ELSE IF conditionalHit(rd.ifNoneMatch, Etag(asset.storageId))
         THEN [rd EXCEPT !.pc = "done", !.asset = asset,
                         !.response = notModifiedResponse(asset, rd.path)]
         ELSE [rd EXCEPT !.pc = "fetch", !.asset = asset]

\* the request arrives; the path is normalised and looked up
ReaderRequest ==
    \E urlPath \in LiveUrlPaths, ifNoneMatch \in LiveIfNoneMatch :
        LET path == lookupPath(pathPrefix, urlPath)
            asset == getByPath(staticAssets, path)
            rd == [IdleReader EXCEPT !.urlPath = urlPath,
                                     !.ifNoneMatch = ifNoneMatch,
                                     !.path = path]
        IN  /\ reader.pc = "idle"
            /\ routed(pathPrefix, urlPath)
            /\ reader' = IF asset = NoAsset /\ spaFallback
                             /\ ~hasFileExtension(path)
                          THEN [rd EXCEPT !.pc = "fallback"]
                          ELSE afterLookup(rd, asset)
            /\ UNCHANGED <<staticAssets, deploymentInfo, storage,
                           nextStorageId, pathPrefix, spaFallback, runs, last,
                           client>>

\* the second lookup, at /index.html
ReaderFallback ==
    /\ reader.pc = "fallback"
    /\ reader' = afterLookup(reader, getByPath(staticAssets, IndexHtml))
    /\ UNCHANGED <<staticAssets, deploymentInfo, storage, nextStorageId,
                   pathPrefix, spaFallback, runs, last, client>>

\* ctx.storage.get of the asset found, and the response built from it
ReaderFetch ==
    /\ reader.pc = "fetch"
    /\ reader' = [reader EXCEPT
                      !.pc = "done",
                      !.response = blobResponse(
                          storageGet(storage, reader.asset.storageId),
                          reader.asset, reader.path)]
    /\ UNCHANGED <<staticAssets, deploymentInfo, storage, nextStorageId,
                   pathPrefix, spaFallback, runs, last, client>>

\* the response is sent and the handler is through
ReaderReturn ==
    /\ reader.pc = "done"
    /\ reader' = IdleReader
    /\ UNCHANGED <<staticAssets, deploymentInfo, storage, nextStorageId,
                   pathPrefix, spaFallback, runs, last, client>>

\* CLI runs one at a time, requests at any moment between their calls
LiveNext ==
    \/ \E r \in RunIds : Alone(r) /\ CliStart(r)
    \/ \E r \in RunIds : Alone(r) /\ CliUpload(r)
    \/ \E r \in RunIds : Alone(r) /\ CliRecordAsset(r)
    \/ \E r \in RunIds : Alone(r) /\ CliGcOldAssets(r)
    \/ \E r \in RunIds : Alone(r) /\ CliFail(r)
    \/ ReaderRequest
    \/ ReaderFallback
    \/ ReaderFetch
    \/ ReaderReturn

LiveSpec == Init /\ [][LiveNext]_vars

-----------------------------------------------------------------------------
(* Live reload: useDeploymentUpdates in a browser tab, deployments that     *)
(* publish their id                                                        *)

\* the id getCurrentDeployment reports, Null for null
CurrentDeploymentId ==
    IF lib_getCurrentDeployment(deploymentInfo) = NoDeployment
    THEN Null
    ELSE lib_getCurrentDeployment(deploymentInfo).currentDeploymentId

\* the result of the exposed getCurrentDeployment as useQuery delivers it
useQueryResult == [loaded |-> TRUE, currentDeploymentId |-> CurrentDeploymentId]

\* if (deployment): neither undefined nor null
truthy(deployment) == deployment.loaded /\ deployment.currentDeploymentId # Null

\* the render body: the first loaded id is captured
render(c) ==
    IF truthy(c.deployment) /\ c.initialDeploymentId = Null
    THEN [c EXCEPT !.initialDeploymentId = c.deployment.currentDeploymentId]
    ELSE c

\* (mutant) the dismissed id disregarded
updateAvailable_noDismiss(c) ==
    IF ~truthy(c.deployment) \/ c.initialDeploymentId = Null
    THEN FALSE
    ELSE c.deployment.currentDeploymentId # c.initialDeploymentId

\* the useMemo value
updateAvailable(c) ==
    IF ~truthy(c.deployment) \/ c.initialDeploymentId = Null
    THEN FALSE
    ELSE LET hasNewDeployment ==
                 c.deployment.currentDeploymentId # c.initialDeploymentId
             isDismissed ==
                 c.deployment.currentDeploymentId = c.dismissedDeploymentId
         IN  hasNewDeployment /\ ~isDismissed

\* the page loads and mounts the hook
ClientMount ==
    /\ ~client.mounted
    /\ client' = [NoClient EXCEPT !.mounted = TRUE,
                                  !.atMount = CurrentDeploymentId]
    /\ UNCHANGED <<staticAssets, deploymentInfo, storage, nextStorageId,
                   pathPrefix, spaFallback, runs, last, reader>>

\* the subscription delivers the query's current result and the hook renders
ClientUpdate ==
    /\ client.mounted
    /\ client.deployment # useQueryResult
    /\ client' = render([client EXCEPT !.deployment = useQueryResult])
    /\ UNCHANGED <<staticAssets, deploymentInfo, storage, nextStorageId,
                   pathPrefix, spaFallback, runs, last, reader>>

\* dismiss()
ClientDismiss ==
    /\ client.mounted
    /\ truthy(client.deployment)
    /\ client' = [client EXCEPT !.dismissedDeploymentId =
                                    client.deployment.currentDeploymentId]
    /\ UNCHANGED <<staticAssets, deploymentInfo, storage, nextStorageId,
                   pathPrefix, spaFallback, runs, last, reader>>

\* reload(): window.location.reload()
ClientReload ==
    /\ client.mounted
    /\ client' = NoClient
    /\ UNCHANGED <<staticAssets, deploymentInfo, storage, nextStorageId,
                   pathPrefix, spaFallback, runs, last, reader>>

\* randomUUID() of a deploy: an id no deployment published before
FreshDeploymentId == CurrentDeploymentId + 1

\* a Convex-storage deploy of an empty dist comes to its gcOldAssets
Publish ==
    /\ FreshDeploymentId <= NumDeploymentIds + NumRuns
    /\ \E now \in Times : gcOldAssets(FreshDeploymentId, now)
    /\ UNCHANGED <<nextStorageId, pathPrefix, spaFallback, runs, reader,
                   client>>

\* the functions of the app's module that npx convex run can name: those of
\* exposeUploadApi and exposeDeploymentQuery
ExposedFunctions ==
    {"generateUploadUrl", "recordAsset", "gcOldAssets", "listAssets",
     "getCurrentDeployment"}

\* execSync of npx convex run "<component>:<name>" ends with an error
convexRunThrows(name) == name \notin ExposedFunctions

\* updateConvexDeployment: the run of setCurrentDeployment, its error caught
updateConvexDeployment(info, deploymentId, now) ==
    IF convexRunThrows("setCurrentDeployment")
    THEN info
    ELSE lib_setCurrentDeployment(info, deploymentId, now)

\* deployToCloudflareWorkers: wrangler deploy, then updateConvexDeployment
CloudflareDeploy ==
    \E wranglerOk \in BOOLEAN, now \in Times :
        /\ FreshDeploymentId <= NumDeploymentIds + NumRuns
        /\ deploymentInfo' =
               IF wranglerOk
               THEN updateConvexDeployment(deploymentInfo, FreshDeploymentId,
                                           now)
               ELSE deploymentInfo
        /\ last' = [op |-> "cloudflare deploy",
                    deploymentId |-> FreshDeploymentId,
                    success |-> wranglerOk]
        /\ UNCHANGED <<staticAssets, storage, nextStorageId, pathPrefix,
                       spaFallback, runs, reader, client>>

NextReload ==
    \/ ClientMount
    \/ ClientUpdate
    \/ ClientDismiss
    \/ ClientReload
    \/ Publish
    \/ CloudflareDeploy

ReloadSpec == Init /\ [][NextReload]_vars

\* the subscription delivers: a result that differs from the tab's is
\* eventually handed to it
FairReloadSpec == ReloadSpec /\ WF_vars(ClientUpdate)

-----------------------------------------------------------------------------
(* The handler's Cache-Control as a function of the request path            *)

Rep(c, n) == [i \in 1 .. n |-> c]

\* lengths of the segment between separator and extension, at and around
\* the bounds of the pattern's quantifier
HashLengths == {HashMin - 1, HashMin, HashMax, HashMax + 1}

\* segments of those lengths: letters, and one with a capital, a digit, an
\* underscore, a character outside the class, or a separator in front
HashSegments ==
    {[Rep("a", n) EXCEPT ![1] = c] :
         n \in HashLengths, c \in {"a", "Z", "3", "_", "$", "-"}}

Extensions ==
    {<<"j", "s">>, <<"J", "S">>, <<"h", "t", "m", "l">>, <<"p", "n", "g">>,
     <<"w", "o", "f", "f", "2">>}

FileNames ==
    {stem \o <<sep>> \o hash \o <<".">> \o ext :
         stem \in {<<>>, <<"x">>}, sep \in {"-", ".", "_"},
         hash \in HashSegments, ext \in Extensions}

Assets == <<"/", "a", "s", "s", "e", "t", "s", "/">>
IndexHashedJs ==
    Assets \o <<"i", "n", "d", "e", "x", "-", "a", "Z", "3", "k", "P", "9",
                ".", "j", "s">>
LogoPng == <<"/", "l", "o", "g", "o", ".", "p", "n", "g">>
FontWoff2 == <<"/", "f", "o", "n", "t", ".", "w", "o", "f", "f", "2">>

\* a dotfile with a second dot, a plain dotfile, a dot in a directory
\* segment only, and the same with a trailing slash
EnvLocal == <<"/", ".", "e", "n", "v", ".", "l", "o", "c", "a", "l">>
Gitignore == <<"/", ".", "g", "i", "t", "i", "g", "n", "o", "r", "e">>
DirDotFile == <<"/", "a", ".", "b", "/", "c">>
DirDotSlash == <<"/", "a", ".", "b", "/">>

CachePaths ==
    {dir \o name : dir \in {Root, Assets}, name \in FileNames}
        \cup {Root, IndexHtml, About, IndexHashedJs, LogoPng, FontWoff2}
        \cup {EnvLocal, Gitignore, DirDotFile, DirDotSlash}

\* one request, for a path that has a row of its own or that only the row
\* of /index.html can answer; the file is in the storage or not
InitCache ==
    /\ deploymentInfo = <<>>
    /\ storage \in {{}, {NumBlobs}}
    /\ nextStorageId = NumBlobs + 1
    /\ pathPrefix = Root
    /\ spaFallback \in BOOLEAN
    /\ runs = [r \in RunIds |-> IdleRun]
    /\ reader = IdleReader
    /\ client = NoClient
    /\ \E p \in CachePaths :
           /\ last \in {PendingRequest(p, h) : h \in {NoHeader, Etag(NumBlobs)}}
           /\ staticAssets \in
                  {<<Row(lookupPath(Root, p), NumBlobs,
                         getMimeType(lookupPath(Root, p)), 1)>>,
                   <<Row(IndexHtml, NumBlobs, TextHtml, 1)>>}

CacheSpec == InitCache /\ [][NextServe]_vars

-----------------------------------------------------------------------------
(* What the claims speak of, read off the tables and the last exchange      *)

\* the rows of the table at a path
rowsAt(path) == {i \in DOMAIN staticAssets : staticAssets[i].path = path}

livePaths == {staticAssets[i].path : i \in DOMAIN staticAssets}

\* a request for the root of the site: "/", or the configured prefix with or
\* without its trailing slash
RootRequest(urlPath) ==
    \/ pathPrefix = Root /\ urlPath = Root
    \/ pathPrefix \in {App, AppSlash} /\ urlPath \in {App, AppSlash}

\* the request path with the configured prefix taken off
Unprefixed(urlPath) ==
    IF RootRequest(urlPath)
    THEN Root
    ELSE IF pathPrefix = Root THEN urlPath ELSE slice(urlPath, Len(App))

\* the rows a request resolves to: the exact row, else, with the SPA fallback
\* on and no file extension, the row of /index.html
ResolvedRows(urlPath) ==
    LET p == IF RootRequest(urlPath) THEN IndexHtml ELSE Unprefixed(urlPath)
    IN  IF rowsAt(p) # {}
        THEN rowsAt(p)
        ELSE IF spaFallback /\ ~hasFileExtension(p)
             THEN rowsAt(IndexHtml)
             ELSE {}

\* the response answers for this row: its file, a 304 for it, or the 500 of a
\* file the storage does not hold
AnswersFor(resp, row) ==
    \/ /\ resp.status = 200
       /\ resp.body = Blob(row.storageId)
       /\ resp.etag = Etag(row.storageId)
    \/ /\ resp.status = 304
       /\ resp.etag = Etag(row.storageId)
    \/ /\ resp.status = 500
       /\ row.storageId \notin storage

IsSetupPage(resp) ==
    /\ resp.status = 200
    /\ resp.body = SetupHtml
    /\ resp.contentType = TextHtml

IsNotFound(resp) ==
    /\ resp.status = 404
    /\ resp.body = NotFoundText
    /\ resp.contentType = TextPlain

\* the looked-up path of a request
LookedUp(urlPath) ==
    IF RootRequest(urlPath) THEN IndexHtml ELSE Unprefixed(urlPath)

\* the response serves a registered file: its content or a 304 for it
ServesAsset(resp) ==
    \/ resp.status = 200 /\ resp.body.kind = "blob"
    \/ resp.status = 304

endsWith(s, e) ==
    /\ Len(e) <= Len(s)
    /\ SubSeq(s, Len(s) - Len(e) + 1, Len(s)) = e

\* a file name that ends with "-" or ".", then 6 to 12 letters, digits or
\* underscores, then a dot and an extension of lowercase letters; read from
\* the end of the name
HashedFileName(name) ==
    LET dot == lastIndexOf(name, ".")
        ext == slice(name, dot)
        front == SubSeq(name, 1, dot - 1)
    IN  /\ dot > 0
        /\ ext # <<>>
        /\ \A j \in DOMAIN ext : ext[j] \in Lower
        /\ \E k \in HashMin .. HashMax :
               /\ Len(front) > k
               /\ front[Len(front) - k] \in {"-", "."}
               /\ \A j \in (Len(front) - k + 1) .. Len(front) :
                      front[j] \in Lower \cup Upper \cup Digit \cup {"_"}

\* how often x occurs in the sequence
Count(seq, x) == Cardinality({i \in DOMAIN seq : seq[i] = x})

Range(seq) == {seq[i] : i \in DOMAIN seq}

\* the storage ids the rows reference
Referenced == {staticAssets[i].storageId : i \in DOMAIN staticAssets}

\* this step is the gcOldAssets call that completes run r
Completes(r) == runs[r].pc = "gc" /\ runs'[r].pc = "done"

\* this step is a call of the exposed gcOldAssets
GcStep == last'.op = "gcOldAssets"

\* this step is a call of the exposed recordAsset
RecordStep == last'.op = "recordAsset"

-----------------------------------------------------------------------------
(* C1 *)

\* C1: whatever recordAsset and gcOldAssets calls were made, no path has two
\* rows; and right after recordAsset(p, b, ...) there is exactly one row at p
\* and its storageId is b.
C1_SingleLiveRow ==
    /\ \A p \in livePaths : Cardinality(rowsAt(p)) = 1
    /\ last.op = "recordAsset" =>
           /\ Cardinality(rowsAt(last.path)) = 1
           /\ \A i \in rowsAt(last.path) :
                  staticAssets[i].storageId = last.storageId

\* a recordAsset replaced the row of a path by one with another file, a row
\* of another path being live
C1_Witness ==
    /\ last.op = "recordAsset"
    /\ last.old # Null
    /\ last.old # last.storageId
    /\ Len(staticAssets) = 2

-----------------------------------------------------------------------------
(* C2 *)

\* C2: when a CLI run that no other writer interleaves with has recorded its
\* files under its fresh deployment id and called gcOldAssets, the live paths
\* are exactly its files, each row carries the file uploaded for it in this
\* run and the run's deployment id, and no live row refers to a file stored
\* before the run began.
C2_ReplaceEverything ==
    \A r \in RunIds :
        (/\ runs[r].pc = "done"
         /\ last.op = "gcOldAssets"
         /\ last.deploymentId = runs[r].deploymentId) =>
            /\ livePaths = {runs[r].files[i] : i \in DOMAIN runs[r].files}
            /\ Len(staticAssets) = Len(runs[r].files)
            /\ \A i \in DOMAIN runs[r].files :
                   \A k \in rowsAt(runs[r].files[i]) :
                       /\ staticAssets[k].storageId = runs[r].uploaded[i]
                       /\ staticAssets[k].deploymentId = runs[r].deploymentId
            /\ \A k \in DOMAIN staticAssets :
                   staticAssets[k].storageId >= runs[r].firstId

\* a second deployment of /index.html alone has just ended after a first of
\* both files, and removed what the first left
C2_Witness ==
    \E r \in RunIds, q \in RunIds :
        /\ r # q
        /\ runs[q].pc = "done"
        /\ runs[q].files = <<AppJs, IndexHtml>>
        /\ runs[r].pc = "done"
        /\ runs[r].files = <<IndexHtml>>
        /\ runs[r].firstId > runs[q].firstId
        /\ last.op = "gcOldAssets"
        /\ last.deploymentId = runs[r].deploymentId
        /\ last.count = 1

-----------------------------------------------------------------------------
(* C3 *)

\* C3: a gcOldAssets(X) step leaves no row whose deploymentId differs from X,
\* and leaves the rows whose deploymentId is X as they were (path, storageId,
\* contentType, deploymentId) and in their order.
C3_FinalizeCompleteness ==
    [][last'.op = "gcOldAssets" =>
           LET ofX(row) == row.deploymentId = last'.deploymentId
           IN  /\ \A i \in DOMAIN staticAssets' : ofX(staticAssets'[i])
               /\ staticAssets' = SelectSeq(staticAssets, ofX)]_vars

\* a gcOldAssets removed a row and kept another
C3_Witness ==
    /\ last.op = "gcOldAssets"
    /\ last.count >= 1
    /\ Len(staticAssets) >= 1

-----------------------------------------------------------------------------
(* C4 *)

\* C4 as stated: whatever calls of the exposed recordAsset and gcOldAssets
\* were made, the storageId of every live row is a file the storage holds.
C4_BlobsResolve ==
    \A i \in DOMAIN staticAssets : staticAssets[i].storageId \in storage

-----------------------------------------------------------------------------
(* C5 *)

\* C5 as stated: a recordAsset call that repeats the call before it (same
\* path, storageId, contentType and deploymentId) changes neither the
\* registry nor the storage.
C5_UpsertIdempotent ==
    [][(/\ last.op = "recordAsset"
        /\ last'.op = "recordAsset"
        /\ last'.path = last.path
        /\ last'.storageId = last.storageId
        /\ last'.contentType = last.contentType
        /\ last'.deploymentId = last.deploymentId) =>
           /\ staticAssets' = staticAssets
           /\ storage' = storage]_vars

-----------------------------------------------------------------------------
(* C6 *)

\* C6: the gcOldAssets with which a CLI run ends removes every row another
\* run recorded, that run being still in progress or not, together with the
\* row's file, and nothing refuses it; and runs can so interleave that after
\* both have ended as done a path both deployed has no row (the witness).
C6_InterleavedHazard ==
    [][\A r \in RunIds :
           (runs[r].pc = "gc" /\ runs'[r].pc = "done") =>
               /\ last'.op = "gcOldAssets"
               /\ \A q \in RunIds \ {r} :
                      \A k \in DOMAIN staticAssets :
                          staticAssets[k].deploymentId = runs[q].deploymentId =>
                              /\ \A j \in DOMAIN staticAssets' :
                                     staticAssets'[j].deploymentId
                                         # runs[q].deploymentId
                              /\ staticAssets[k].storageId \notin storage']_vars

\* both runs have ended as done, and a path both deployed has no row
C6_Witness ==
    /\ \A r \in RunIds : runs[r].pc = "done"
    /\ \E p \in AssetPaths :
           /\ \A r \in RunIds : \E i \in DOMAIN runs[r].files :
                  runs[r].files[i] = p
           /\ rowsAt(p) = {}

-----------------------------------------------------------------------------
(* C7 *)

\* C7: when the exact lookup of the normalized path misses, the response is
\* the one for the /index.html row exactly when spaFallback is on and the path
\* has no file extension (and there is an /index.html row to fall back to);
\* otherwise no asset is served: the answer is 404 or the setup page.  With
\* rows only at /index.html and /assets/app.js, /about answers with the
\* /index.html row and /assets/missing.js with 404, and with spaFallback off
\* /about answers 404.
C7_SpaFallback ==
    last.op = "GET" =>
        LET p == IF RootRequest(last.urlPath)
                 THEN IndexHtml
                 ELSE Unprefixed(last.urlPath)
            resp == last.response
        IN  /\ rowsAt(p) = {} =>
                IF spaFallback /\ ~hasFileExtension(p) /\ rowsAt(IndexHtml) # {}
                THEN \A i \in rowsAt(IndexHtml) :
                         AnswersFor(resp, staticAssets[i])
                ELSE IsNotFound(resp) \/ IsSetupPage(resp)
            /\ (pathPrefix = Root /\ livePaths = {IndexHtml, AppJs}) =>
                /\ (last.urlPath = About /\ spaFallback) =>
                       \A i \in rowsAt(IndexHtml) :
                           AnswersFor(resp, staticAssets[i])
                /\ (last.urlPath = About /\ ~spaFallback) => IsNotFound(resp)
                /\ last.urlPath = MissingJs => IsNotFound(resp)

\* /about was answered with the file of /index.html, the registry holding
\* /index.html and /assets/app.js only
C7_Witness ==
    /\ last.op = "GET"
    /\ last.urlPath = About
    /\ pathPrefix = Root
    /\ spaFallback
    /\ livePaths = {IndexHtml, AppJs}
    /\ last.response.status = 200
    /\ \E i \in rowsAt(IndexHtml) :
           last.response.body = Blob(staticAssets[i].storageId)

-----------------------------------------------------------------------------
(* C8 *)

\* C8 as stated: for a request that resolves to an asset, If-None-Match equal
\* to the quoted storage id gives 304 without a body, and any other or no
\* If-None-Match gives 200 with the body.
C8_AsStated ==
    last.op = "GET" =>
        \A i \in ResolvedRows(last.urlPath) :
            IF last.ifNoneMatch = [form |-> "quoted",
                                   id |-> staticAssets[i].storageId]
            THEN /\ last.response.status = 304
                 /\ last.response.body = NoBody
            ELSE /\ last.response.status = 200
                 /\ last.response.body = Blob(staticAssets[i].storageId)

\* C8 (amended): for a request that resolves to an asset, If-None-Match equal
\* to the quoted storage id gives 304 without a body, carrying the ETag and a
\* Cache-Control; any other or no If-None-Match gives 200 with the body when
\* the storage holds the asset's file, and 500 when it does not.
C8_Conditional ==
    last.op = "GET" =>
        \A i \in ResolvedRows(last.urlPath) :
            IF last.ifNoneMatch = [form |-> "quoted",
                                   id |-> staticAssets[i].storageId]
            THEN /\ last.response.status = 304
                 /\ last.response.body = NoBody
                 /\ last.response.etag = last.ifNoneMatch
                 /\ last.response.cacheControl \in {Immutable, MustRevalidate}
            ELSE IF staticAssets[i].storageId \in storage
                 THEN /\ last.response.status = 200
                      /\ last.response.body = Blob(staticAssets[i].storageId)
                 ELSE last.response.status = 500

\* a 304 was given for a matching If-None-Match
C8_Witness ==
    /\ last.op = "GET"
    /\ last.response.status = 304
    /\ \E i \in ResolvedRows(last.urlPath) :
           last.ifNoneMatch.id = staticAssets[i].storageId

-----------------------------------------------------------------------------
(* C9 *)

\* C9 as stated: every request, whatever its If-None-Match, that resolves to
\* a row whose file the storage does not hold is answered 500.
C9_AsStated ==
    last.op = "GET" =>
        \A i \in ResolvedRows(last.urlPath) :
            staticAssets[i].storageId \notin storage =>
                last.response.status = 500

\* C9 (amended): a request that resolves to a row whose file the storage does
\* not hold is never answered 200; it is answered 500 with the plain-text
\* error unless its If-None-Match equals the row's ETag, and then 304.
C9_Dangling ==
    last.op = "GET" =>
        \A i \in ResolvedRows(last.urlPath) :
            staticAssets[i].storageId \notin storage =>
                /\ last.response.status # 200
                /\ IF last.ifNoneMatch = [form |-> "quoted",
                                          id |-> staticAssets[i].storageId]
                   THEN last.response.status = 304
                   ELSE /\ last.response.status = 500
                        /\ last.response.body = StorageErrorText
                        /\ last.response.contentType = TextPlain

\* a 500 was given for a row whose file is gone
C9_Witness ==
    /\ last.op = "GET"
    /\ last.response.status = 500
    /\ \E i \in ResolvedRows(last.urlPath) :
           staticAssets[i].storageId \notin storage

-----------------------------------------------------------------------------
(* C10 *)

\* C10 as stated: a request for the root with no /index.html row is answered
\* 200 with the setup page, and every other request that resolves to no row
\* is answered 404 with the plain-text body.
C10_AsStated ==
    (last.op = "GET" /\ ResolvedRows(last.urlPath) = {}) =>
        IF RootRequest(last.urlPath)
        THEN IsSetupPage(last.response)
        ELSE IsNotFound(last.response)

\* C10 (amended): a request that resolves to no row is answered 200 with the
\* setup page when the path looked up is /index.html - the root, the prefix,
\* or /index.html itself under the prefix - and 404 with the plain-text body
\* for every other path.
C10_Bootstrap ==
    (last.op = "GET" /\ ResolvedRows(last.urlPath) = {}) =>
        IF RootRequest(last.urlPath) \/ Unprefixed(last.urlPath) = IndexHtml
        THEN IsSetupPage(last.response)
        ELSE IsNotFound(last.response)

\* the root was asked of an empty registry and the setup page came back
C10_Witness ==
    /\ last.op = "GET"
    /\ last.urlPath = Root
    /\ pathPrefix = Root
    /\ staticAssets = <<>>
    /\ IsSetupPage(last.response)

-----------------------------------------------------------------------------
(* C11 *)

\* C11: a served path gets the one-year immutable Cache-Control exactly when
\* its file name ends with "-" or "." followed by 6 to 12 alphanumeric or
\* underscore characters, a dot and a lowercase extension, and the
\* must-revalidate, max-age=0 directive otherwise; /assets/index-aZ3kP9.js
\* gets the former, /index.html the latter.
C11_CacheHeaderSplit ==
    (last.op = "GET" /\ ServesAsset(last.response)) =>
        LET p == LookedUp(last.urlPath)
            cc == last.response.cacheControl
        IN  /\ cc = IF HashedFileName(lastSegment(p))
                    THEN Immutable
                    ELSE MustRevalidate
            /\ p = IndexHashedJs => cc = Immutable
            /\ p = IndexHtml => cc = MustRevalidate

\* a name with a 12-character segment served immutable
C11_Witness ==
    /\ last.op = "GET"
    /\ last.response.status = 200
    /\ last.response.cacheControl = Immutable
    /\ \E name \in FileNames :
           /\ last.urlPath = Assets \o name
           /\ Len(name) = HashMax + 4
           /\ name[1] = "-"

-----------------------------------------------------------------------------
(* C12 *)

DotHtml == <<".", "h", "t", "m", "l">>

\* C12: every response for a request path ending in .html that carries a
\* Cache-Control header carries the must-revalidate, max-age=0 directive,
\* never the one-year immutable one, whatever the file's name.
C12_HtmlAlwaysFresh ==
    (/\ last.op = "GET"
     /\ endsWith(LookedUp(last.urlPath), DotHtml)
     /\ ServesAsset(last.response)) =>
        last.response.cacheControl = MustRevalidate

-----------------------------------------------------------------------------
(* C13 *)

ImageAndFontTypes ==
    {"image/png", "image/jpeg", "image/gif", "image/svg+xml", "image/x-icon",
     "image/webp", "font/woff", "font/woff2", "font/ttf"}

\* C13: every image or font path that is served, /logo.png and /font.woff2
\* among them, is served with the one-year immutable Cache-Control.
C13_ImagesFontsImmutable ==
    (/\ last.op = "GET"
     /\ getMimeType(LookedUp(last.urlPath)) \in ImageAndFontTypes
     /\ last.response.status = 200
     /\ last.response.contentType \in ImageAndFontTypes) =>
        last.response.cacheControl = Immutable

-----------------------------------------------------------------------------
(* C14 *)

\* C14: whatever the request, the tables and the storage, the handler's
\* response status is one of 200, 304, 404, 500.
C14_StatusSet ==
    last.op = "GET" => last.response.status \in {200, 304, 404, 500}

\* a request under the prefix /app answered 404 by a non-empty registry
C14_Witness ==
    /\ last.op = "GET"
    /\ pathPrefix = App
    /\ staticAssets # <<>>
    /\ last.response.status = 404

-----------------------------------------------------------------------------
(* C15 *)

\* C15: the list gcOldAssets(X) returns holds the storage id of each row it
\* deleted once and nothing else (each storage id as often as deleted rows
\* carry it), and the exposed gcOldAssets returns the list's length.
C15_ReturnsRemovedSet ==
    [][GcStep =>
          /\ \A id \in StorageIds :
                 Count(last'.deleted, id) =
                     Cardinality({i \in DOMAIN staticAssets :
                                      /\ staticAssets[i] \notin Range(staticAssets')
                                      /\ staticAssets[i].storageId = id})
          /\ Range(last'.deleted) \subseteq StorageIds
          /\ last'.count = Len(last'.deleted)]_vars

\* two deleted rows that carried the same storage id
C15_Witness ==
    /\ last.op = "gcOldAssets"
    /\ last.count = 2
    /\ last.deleted[1] = last.deleted[2]

-----------------------------------------------------------------------------
(* C16 *)

\* C16: a gcOldAssets(X) call that directly follows a gcOldAssets(X) call
\* returns an empty list, count 0, and leaves the registry unchanged.
C16_IdempotentRefinalize ==
    [][(GcStep /\ last'.again) =>
          /\ last'.deleted = <<>>
          /\ last'.count = 0
          /\ staticAssets' = staticAssets]_vars

\* the second call, after a first that deleted a row and kept another
C16_Witness ==
    /\ last.op = "gcOldAssets"
    /\ last.again
    /\ staticAssets # <<>>
    /\ Cardinality(storage) < nextStorageId - 1

-----------------------------------------------------------------------------
(* C17 *)

-----------------------------------------------------------------------------
(* C18 *)

\* C18: the deploymentInfo table never holds more than one row; the first
\* setCurrentDeployment call creates the row and every later call patches
\* that same row in place.
C18_Singleton ==
    [][/\ Len(deploymentInfo') <= 1
       /\ GcStep =>
              /\ Len(deploymentInfo') = 1
              /\ deploymentInfo # <<>> =>
                     deploymentInfo'[1]._id = deploymentInfo[1]._id
              /\ deploymentInfo'[1].currentDeploymentId = last'.deploymentId
       /\ ~GcStep => deploymentInfo' = deploymentInfo]_vars

\* the row after a second call, which patched it
C18_Witness ==
    /\ last.op = "gcOldAssets"
    /\ last.again
    /\ Len(deploymentInfo) = 1
    /\ deploymentInfo[1].currentDeploymentId = NumDeploymentIds

-----------------------------------------------------------------------------
(* C19 *)

\* C19: getCurrentDeployment returns null until the first
\* setCurrentDeployment, and afterwards the id passed to the last one:
\* every call sets it and nothing else changes it.
C19_MostRecentWins ==
    /\ lib_getCurrentDeployment(deploymentInfo) = NoDeployment
    /\ [][IF GcStep
          THEN /\ lib_getCurrentDeployment(deploymentInfo') # NoDeployment
               /\ lib_getCurrentDeployment(deploymentInfo').currentDeploymentId
                      = last'.deploymentId
          ELSE lib_getCurrentDeployment(deploymentInfo')
                   = lib_getCurrentDeployment(deploymentInfo)]_vars

\* the id of an earlier call read after a later recordAsset of another id
C19_Witness ==
    /\ last.op = "recordAsset"
    /\ lib_getCurrentDeployment(deploymentInfo) # NoDeployment
    /\ lib_getCurrentDeployment(deploymentInfo).currentDeploymentId
           # last.deploymentId

-----------------------------------------------------------------------------
(* C20 *)

\* C20: when a delete of a reclaimed file throws inside the exposed
\* recordAsset or gcOldAssets, the call still completes: the registry rows
\* are updated, every other stale file is deleted, and gcOldAssets still
\* publishes the deployment id.
C20_CleanupFailureNonFatal ==
    [][/\ (GcStep /\ last'.threw) =>
               /\ \A i \in DOMAIN staticAssets' :
                      staticAssets'[i].deploymentId = last'.deploymentId
               /\ storage' = storage \ Range(last'.deleted)
               /\ last'.count = Len(last'.deleted)
               /\ lib_getCurrentDeployment(deploymentInfo').currentDeploymentId
                      = last'.deploymentId
       /\ (RecordStep /\ last'.threw) =>
               /\ \E i \in DOMAIN staticAssets' :
                      /\ staticAssets'[i].path = last'.path
                      /\ staticAssets'[i].storageId = last'.storageId
               /\ storage' = storage]_vars

\* a gcOldAssets call with two stale files of which one delete threw: both
\* files are gone and the deployment id is published
C20_Witness ==
    /\ last.op = "gcOldAssets"
    /\ last.threw
    /\ last.count = 2
    /\ last.deleted[1] # last.deleted[2]
    /\ storage = {}
    /\ deploymentInfo[1].currentDeploymentId = last.deploymentId

-----------------------------------------------------------------------------
(* C21 *)

\* C21: a CLI run that starts, with no other run in progress, from a state
\* where the storage holds exactly the files the live rows reference, and
\* runs to completion (upload and recordAsset for each file, then
\* gcOldAssets), ends in a state where the storage again holds exactly the
\* files the live rows reference.
C21_NoLeakedBlobs ==
    [][\A r \in RunIds :
           (Completes(r) /\ runs[r].clean) =>
               storage' = {staticAssets'[i].storageId :
                               i \in DOMAIN staticAssets'}]_vars

\* the second run completed: it replaced a file, removed a stale one, and
\* the storage holds the one file the one row references
C21_Witness ==
    /\ last.op = "gcOldAssets"
    /\ last.count = 1
    /\ \E r \in RunIds : runs[r].pc = "done" /\ runs[r].clean /\ runs[r].before # {}
    /\ Len(staticAssets) = 1
    /\ storage = Referenced
    /\ nextStorageId = NumBlobs + 1

-----------------------------------------------------------------------------
(* C22 *)

\* C22: a run calls gcOldAssets with its deployment id only once its loop
\* has uploaded and recorded every collected file, and only once: the call
\* ends the run.  A step that fails ends the run too, with the tables and
\* the storage as they were, so a partly recorded batch is never followed
\* by its gcOldAssets and the rows it has not replaced stay.
C22_OrderingAndHardStop ==
    [][\A r \in RunIds :
           /\ (/\ GcStep
               /\ runs[r].deploymentId # Null
               /\ last'.deploymentId = runs[r].deploymentId) =>
                  /\ Completes(r)
                  /\ runs[r].i = Len(runs[r].files) + 1
                  /\ Len(runs[r].uploaded) = Len(runs[r].files)
           /\ runs[r].pc \in {"done", "failed"} => runs'[r] = runs[r]
           /\ (runs[r].pc # "failed" /\ runs'[r].pc = "failed") =>
                  /\ staticAssets' = staticAssets
                  /\ storage' = storage
                  /\ deploymentInfo' = deploymentInfo]_vars

\* a run failed with one of its two files recorded; the row of the completed
\* run before it for the other file is still live
C22_Witness ==
    \E r, q \in RunIds :
        /\ runs[r].pc = "failed"
        /\ Len(runs[r].files) = 2
        /\ runs[q].pc = "done"
        /\ Len(staticAssets) = 2
        /\ \E i, j \in DOMAIN staticAssets :
               /\ staticAssets[i].deploymentId = runs[r].deploymentId
               /\ staticAssets[j].deploymentId = runs[q].deploymentId
        /\ deploymentInfo[1].currentDeploymentId = runs[q].deploymentId

-----------------------------------------------------------------------------
(* C23 *)

\* the published id is no longer the one the tab mounted under
ChangedSinceMount == client.mounted /\ CurrentDeploymentId # client.atMount

\* C23: whenever the published currentDeploymentId has changed while a tab
\* is subscribed, the first deployment ever published included,
\* updateAvailable eventually becomes true in that tab, unless the user
\* dismissed that deployment (or the tab was reloaded).
C23_LiveReloadNotifies ==
    ChangedSinceMount ~>
        \/ updateAvailable(client)
        \/ client.dismissedDeploymentId = CurrentDeploymentId
        \/ ~ChangedSinceMount

-----------------------------------------------------------------------------
(* C24 *)

\* C24: updateAvailable is false before a deployment value has loaded and
\* while the current id is the initially captured one; dismiss() records the
\* current id D, and updateAvailable is false while the current id is D and
\* true once the current id differs from both D and the initial id.
C24_DismissUntilNextDeploy ==
    /\ [](LET d == client.deployment
              id == d.currentDeploymentId
          IN  /\ ~truthy(d) => ~updateAvailable(client)
              /\ (truthy(d) /\ id = client.initialDeploymentId) =>
                     ~updateAvailable(client)
              /\ (truthy(d) /\ id = client.dismissedDeploymentId) =>
                     ~updateAvailable(client)
              /\ (truthy(d) /\ id \notin {client.initialDeploymentId,
                                            client.dismissedDeploymentId}) =>
                     updateAvailable(client))
    /\ [][(client.mounted /\ client'.mounted) =>
              /\ client'.dismissedDeploymentId # client.dismissedDeploymentId =>
                     /\ client'.dismissedDeploymentId =
                            client.deployment.currentDeploymentId
                     /\ client'.deployment = client.deployment
              /\ client.initialDeploymentId # Null =>
                     client'.initialDeploymentId = client.initialDeploymentId]_vars

\* the update shown again: loaded under one id, a second dismissed, a third
\* current
C24_Witness ==
    /\ client.mounted
    /\ updateAvailable(client)
    /\ client.dismissedDeploymentId # Null
    /\ client.dismissedDeploymentId # client.initialDeploymentId
    /\ client.deployment.currentDeploymentId # client.dismissedDeploymentId

-----------------------------------------------------------------------------
(* C25 *)

\* C25: after every successful Cloudflare Workers deploy getCurrentDeployment
\* reports the deploy's id (the CLI ran setCurrentDeployment with it); the
\* deploy succeeds whether or not that run did.
C25_CloudflareLiveReload ==
    [][(last'.op = "cloudflare deploy" /\ last'.success) =>
          CurrentDeploymentId' = last'.deploymentId]_vars

-----------------------------------------------------------------------------
(* C26 *)

\* C26: gcOldAssets(X) called when no row carries deployment id X deletes
\* every row and returns the storage ids of all of them; the registry is
\* left without rows.
C26_EmptyDeployment ==
    [][(/\ GcStep
        /\ \A i \in DOMAIN staticAssets :
               staticAssets[i].deploymentId # last'.deploymentId) =>
           /\ staticAssets' = <<>>
           /\ last'.deleted =
                  [i \in DOMAIN staticAssets |-> staticAssets[i].storageId]
           /\ last'.count = Len(staticAssets)]_vars

\* two rows with files of their own deleted by one call, a third file left
C26_Witness ==
    /\ last.op = "gcOldAssets"
    /\ staticAssets = <<>>
    /\ last.count = 2
    /\ ~last.threw
    /\ Cardinality(storage) = 1

-----------------------------------------------------------------------------
(* C27 *)

\* the segment has a "." that is not its first character
DotNotFirst(segment) == \E i \in 2 .. Len(segment) : segment[i] = "."

\* C27: hasFileExtension(path) is true exactly when the last "/"-delimited
\* segment of the path has a "." that is not its first character, for every
\* path: /.env.local, paths that end in "/" and paths with dots in directory
\* segments only included.
C27_HasFileExtension ==
    last.op \in {"request", "GET"} =>
        (hasFileExtension(LookedUp(last.urlPath))
            <=> DotNotFirst(lastSegment(LookedUp(last.urlPath))))

-----------------------------------------------------------------------------
(* C28 *)

\* C28: with a prefix P configured, with or without trailing slash, a
\* request for P or P/ looks up /index.html and a request for P/x looks up
\* /x; with the default prefix "/" the paths "" and "/" look up /index.html
\* and every other path is looked up as it is.  The row at the looked-up
\* path is the one that answers.
C28_PrefixHandling ==
    /\ lookupPath(Root, <<>>) = IndexHtml
    /\ last.op = "GET" =>
           /\ lookupPath(pathPrefix, last.urlPath) = LookedUp(last.urlPath)
           /\ \A i \in rowsAt(LookedUp(last.urlPath)) :
                  AnswersFor(last.response, staticAssets[i])

\* /app/assets/app.js under the prefix "/app/" answered with the file of
\* the row at /assets/app.js
C28_Witness ==
    /\ last.op = "GET"
    /\ pathPrefix = AppSlash
    /\ last.urlPath = App \o AppJs
    /\ last.response.status = 200
    /\ \E i \in rowsAt(AppJs) :
           last.response.body = Blob(staticAssets[i].storageId)

-----------------------------------------------------------------------------
(* C30 *)

\* C30: right after the exposed gcOldAssets(d), getCurrentDeployment
\* reports d and every live row carries d; the pointer changes only in steps
\* that leave no row of another deployment.
C30_PointerAndRegistryAgree ==
    /\ [](last.op = "gcOldAssets" =>
              /\ CurrentDeploymentId = last.deploymentId
              /\ \A i \in DOMAIN staticAssets :
                     staticAssets[i].deploymentId = last.deploymentId)
    /\ [][deploymentInfo' # deploymentInfo =>
              \A i \in DOMAIN staticAssets' :
                  staticAssets'[i].deploymentId = CurrentDeploymentId']_vars

\* the pointer moved to a second id by a call that removed one row and kept
\* one
C30_Witness ==
    /\ last.op = "gcOldAssets"
    /\ ~last.again
    /\ last.count = 1
    /\ Len(staticAssets) = 1
    /\ CurrentDeploymentId = NumDeploymentIds
    /\ staticAssets[1].deploymentId = NumDeploymentIds

-----------------------------------------------------------------------------
(* C29 *)

InProgress(r) == runs[r].pc \in {"upload", "record", "gc"}

\* the run is the latest one started
Latest(r) == \A q \in RunIds : q > r => runs[q].pc = "idle"

\* the paths the claim keeps resolvable for run r: while it is in progress
\* every path live when it started, once it is through those of them that
\* are files of the run
KeptLive(r) ==
    IF InProgress(r)
    THEN runs[r].before
    ELSE IF runs[r].pc = "done"
         THEN runs[r].before \cap Range(runs[r].files)
         ELSE {}

\* C29: with CLI runs one at a time, a request whose lookup falls anywhere
\* between the calls of a run finds a row for a path that was live when the
\* run started, up to the run's gcOldAssets, and from then on for a path
\* that is also a file of the run; its answer is a 304 or what the storage
\* read gives, never a 404.
C29_NoGapDuringReplacement ==
    /\ [][\A r \in RunIds :
              (/\ reader.pc = "idle"
               /\ reader'.pc # "idle"
               /\ Latest(r)
               /\ reader'.path \in KeptLive(r)) =>
                  /\ reader'.asset # NoAsset
                  /\ reader'.asset.path = reader'.path
                  /\ reader'.pc \in {"fetch", "done"}
                  /\ reader'.response.status \in {0, 304}]_vars
    /\ [][(reader.pc = "fetch" /\ reader'.pc = "done") =>
              reader'.response.status \in {200, 500}]_vars

\* /assets/app.js answered with the file of the previous deployment while
\* the run that replaces it is under way
C29_Witness ==
    \E r \in RunIds :
        /\ InProgress(r)
        /\ AppJs \in runs[r].before
        /\ AppJs \in Range(runs[r].files)
        /\ reader.pc = "done"
        /\ reader.path = AppJs
        /\ reader.response.status = 200
        /\ reader.asset.storageId < runs[r].firstId

====
